---- MODULE Spec2Model ----
(***************************************************************************)
(* Target Shootout: browser tabs (React components Index, Lobby, Game)     *)
(* over a hosted Postgres database with row-level security and change      *)
(* notifications.  The database is the shared state; every tab runs the    *)
(* async handlers of the page it shows, one database call per step.        *)
(***************************************************************************)
EXTENDS Integers, Sequences, FiniteSets, Bags, TLC

\* ---------------------------------------------------------------- bounds
NUsers == 2
NTabs == 2
MaxInbox == 1
MaxTargets == 12
NSeeds == 2
MaxWave == 3
MaxTimers == 1
MaxEvents == 3
MaxReruns == 1

Users == 1..NUsers
Tabs == 1..NTabs

\* ------------------------------------------------------ program constants
DefaultMaxPlayers == 4
DefaultHealth == 100
DefaultScore == 0
DefaultPosition == 50
HitRadius == 25
LobbyId == 1
Host == 1
LobbyCode == "ABC123"

\* Route parameters a user can type into the join form.
CodeInputs == {"abc123", "ABC123", "zzzzzz", ""}

\* String.prototype.toUpperCase on the codes above.
ToUpperCase(s) ==
    CASE s = "abc123" -> "ABC123"
      [] s = "zzzzzz" -> "ZZZZZZ"
      [] OTHER -> s

\* String.prototype.trim on the codes above (none carries white space).
Trim(s) == s

VARIABLES
    lobbies,        \* table public.lobbies: a set of rows
    game_players,   \* table public.game_players: a bag of rows
    targets,        \* table public.targets: the rows in insertion order
    game_events,    \* table public.game_events: a bag of rows
    tabs,           \* per browser tab: route, signed-in user, Lobby component state
    games,          \* per browser tab: Game component state
    errors          \* the call sites whose database error was dropped: returned,
                    \* and neither read nor shown in a toast

vars == <<lobbies, game_players, targets, game_events, tabs, games, errors>>

\* ------------------------------------------------------------ the schema
LobbyRow(host) ==
    [id |-> LobbyId, code |-> LobbyCode, host_id |-> host,
     max_players |-> DefaultMaxPlayers, current_players |-> 0,
     status |-> "waiting"]

GamePlayerRow(lid, uid) ==
    [lobby_id |-> lid, player_id |-> uid,
     position_x |-> DefaultPosition, position_y |-> DefaultPosition,
     health |-> DefaultHealth, score |-> DefaultScore, is_alive |-> TRUE]

\* ------------------------------------------------- row-level security
\* A mutation of LobbiesUpdatePolicy: the policy's USING clause is true.
LobbiesUpdateAnyone(uid, row) == TRUE

\* A mutation of GamePlayersUnique: the table has no UNIQUE constraint.
GamePlayersNotUnique(gp, row) == TRUE

LobbiesUpdatePolicy(uid, row) == uid = row.host_id

GamePlayersInsertPolicy(uid, row) == uid = row.player_id

GamePlayersUpdatePolicy(uid, row) == uid = row.player_id

\* RLS is enabled on game_players and no policy covers DELETE: no row is
\* visible to a DELETE issued through the client API.
GamePlayersDeletePolicy(uid, row) == FALSE

\* UNIQUE(lobby_id, player_id)
GamePlayersUnique(gp, row) ==
    \A r \in BagToSet(gp) :
        ~(r.lobby_id = row.lobby_id /\ r.player_id = row.player_id)

\* "Users can view targets in their lobbies", FOR SELECT
TargetsViewPolicy(gp, uid, row) ==
    \E r \in BagToSet(gp) : r.lobby_id = row.lobby_id /\ r.player_id = uid

\* "System can manage targets", FOR ALL: every command, SELECT included
TargetsManagePolicy(uid, row) == TRUE

\* Permissive policies are OR-ed: a row is visible to a SELECT when any policy
\* that applies to SELECT passes.
TargetsSelectPolicy(gp, uid, row) ==
    TargetsViewPolicy(gp, uid, row) \/ TargetsManagePolicy(uid, row)

TargetsInsertPolicy(uid, row) == TargetsManagePolicy(uid, row)

TargetsUpdatePolicy(uid, row) == TargetsManagePolicy(uid, row)

\* "Users can create events"
GameEventsInsertPolicy(gp, uid, row) ==
    \E r \in BagToSet(gp) : r.lobby_id = row.lobby_id /\ r.player_id = uid

\* ---------------------------------------------------------- table access
PlayersOf(gp, lid) == {r \in BagToSet(gp) : r.lobby_id = lid}

RowCount(gp, lid) ==
    BagCardinality([r \in PlayersOf(gp, lid) |-> gp[r]])

RowsOfPlayer(gp, lid, uid) ==
    BagCardinality([r \in {x \in PlayersOf(gp, lid) : x.player_id = uid} |-> gp[r]])

\* select * from lobbies where code = c
SelectLobbyByCode(c) == {l \in lobbies : l.code = c}

\* update lobbies set <cols> where id = lid, issued by uid
UpdateLobbies(uid, lid, cols) ==
    {IF l.id = lid /\ LobbiesUpdatePolicy(uid, l) THEN cols @@ l ELSE l : l \in lobbies}

UpdatedLobbies(uid, lid) ==
    {l \in lobbies : l.id = lid /\ LobbiesUpdatePolicy(uid, l)}

\* delete from game_players where lobby_id = lid and player_id = uid, issued by uid
DeleteGamePlayers(uid, lid, pid) ==
    LET gone == {r \in BagToSet(game_players) :
                    /\ r.lobby_id = lid /\ r.player_id = pid
                    /\ GamePlayersDeletePolicy(uid, r)}
    IN [r \in BagToSet(game_players) \ gone |-> game_players[r]]

\* ------------------------------------------------------------------ tabs
IdleTab ==
    [user |-> 0, screen |-> "/", pc |-> "idle", code |-> "",
     lobby |-> {}, lobbyData |-> {}, loading |-> FALSE, players |-> {},
     channel |-> "none", inbox |-> <<>>]

\* The Game component unmounted, and in its first render: no player of its
\* own yet, no players and no targets, wave 1; initializeGame is to run.
\* click is where the last click event on the window landed; closures holds
\* the renders whose handlers later runs of the mount effect registered.
IdleGame ==
    [pc |-> "none", myPlayer |-> {}, players |-> {}, targets |-> {}, wave |-> 1,
     gameStatus |-> "playing", channel |-> "none", inbox |-> 0, timers |-> 0,
     click |-> {}, closures |-> <<>>]

MountedGame == [IdleGame EXCEPT !.pc = "init_players"]

\* The result of a database call at `site`: an error the handler shows no
\* toast for is recorded.
Returned(site, error, toasted) ==
    IF error /\ ~toasted THEN errors \cup {site} ELSE errors

\* A mutation of Landing: the return after navigate('/') is missing and the
\* handler goes on to its next call.
LandingFallThrough(tab, title) == [tab EXCEPT !.pc = "join_count"]

\* toast({title}); navigate('/'); return: the landing page, the handler over.
Landing(tab, title) == IdleTab

Init ==
    /\ lobbies = {LobbyRow(Host)}
    /\ game_players = EmptyBag
    /\ targets = <<>>
    /\ game_events = EmptyBag
    /\ tabs = [t \in Tabs |-> IdleTab]
    /\ games = [t \in Tabs |-> IdleGame]
    /\ errors = {}

\* ------------------------------------------------ change notifications
LobbyChange(row) == [table |-> "lobbies", new |-> {row}]

PlayersChange == [table |-> "game_players", new |-> {}]

\* Every subscribed channel of ts has room for n more notifications.
RoomIn(ts, n) ==
    \A t \in Tabs : ts[t].channel = "active" => Len(ts[t].inbox) + n <= MaxInbox

Room(n) == RoomIn(tabs, n)

\* The realtime service forwards a change to every channel subscribed at the
\* time of the write.
Deliver(ts, msgs) ==
    [t \in Tabs |->
        IF ts[t].channel = "active"
        THEN [ts[t] EXCEPT !.inbox = @ \o msgs]
        ELSE ts[t]]

\* The game channel of a tab is told of n changed rows; what does not fit its
\* queue coalesces with the last one queued (the callback only refetches).
DeliverGame(gs, n) ==
    [t \in Tabs |->
        IF gs[t].channel = "active"
        THEN [gs[t] EXCEPT !.inbox = IF @ + n <= MaxInbox THEN @ + n ELSE MaxInbox]
        ELSE gs[t]]

\* What the Lobby component's unmount leaves of a tab that moves to /game/{id}:
\* its state is dropped and its channel removed; a handler already running goes on.
ToGame(tab) ==
    [tab EXCEPT !.screen = "game", !.lobby = {}, !.loading = FALSE,
                !.players = {}, !.channel = "none", !.inbox = <<>>]

\* --------------------------------------------------------------- Index
\* Index.joinLobbyByCode: the join form; then Lobby mounts and calls joinLobby.
joinLobbyByCode(t, u, c) ==
    /\ tabs[t].screen = "/"
    /\ tabs[t].pc = "idle"
    /\ Trim(c) # ""
    /\ tabs' = [tabs EXCEPT ![t] =
                  [IdleTab EXCEPT !.user = u, !.screen = "lobby", !.pc = "join_find",
                                  !.code = ToUpperCase(c), !.loading = TRUE]]
    /\ UNCHANGED <<lobbies, game_players, targets, game_events, games, errors>>

\* Index: the Join button of a listed lobby (fetchLobbies lists the waiting
\* lobbies; the button is disabled when the lobby is full).
joinFromList(t, u) ==
    /\ tabs[t].screen = "/"
    /\ tabs[t].pc = "idle"
    /\ \E l \in lobbies :
         /\ l.status = "waiting"
         /\ ~(l.current_players >= l.max_players)
         /\ Trim(l.code) # ""
         /\ tabs' = [tabs EXCEPT ![t] =
                       [IdleTab EXCEPT !.user = u, !.screen = "lobby",
                                       !.pc = "join_find",
                                       !.code = ToUpperCase(l.code), !.loading = TRUE]]
    /\ UNCHANGED <<lobbies, game_players, targets, game_events, games, errors>>

\* --------------------------------------------------------------- Lobby
\* joinLobby, first call: find the lobby by code; setLobby starts the
\* subscription effect.
joinLobby_find(t, fail) ==
    LET found == SelectLobbyByCode(ToUpperCase(tabs[t].code))
        err == fail \/ Cardinality(found) # 1
    IN /\ tabs[t].pc = "join_find"
       /\ errors' = Returned("join_find", err, err)
       /\ tabs' = [tabs EXCEPT ![t] =
                     IF err THEN Landing(@, "Lobby not found")
                     ELSE [@ EXCEPT !.pc = "join_check", !.lobbyData = found,
                                    !.code = "",
                                    !.lobby = found, !.channel = "pending",
                                    !.inbox = <<>>]]
       /\ UNCHANGED <<lobbies, game_players, targets, game_events, games>>

\* joinLobby, second call: is the user already a player of the lobby?
\* .single() answers with an error unless exactly one row matches; the error
\* is not read, and data is null then.
joinLobby_check(t, fail) ==
    LET me == tabs[t]
        err == fail \/ \A l \in me.lobbyData :
                          RowsOfPlayer(game_players, l.id, me.user) # 1
    IN /\ me.pc = "join_check"
       /\ errors' = Returned("join_check", err, FALSE)
       /\ tabs' = [tabs EXCEPT ![t] =
                     IF err THEN [@ EXCEPT !.pc = "join_insert"]
                     ELSE [@ EXCEPT !.pc = "idle", !.loading = FALSE,
                                    !.lobbyData = {}]]
       /\ UNCHANGED <<lobbies, game_players, targets, game_events, games>>

\* joinLobby, third call: insert the player's row.
joinLobby_insert(t, fail) ==
    LET me == tabs[t]
    IN /\ me.pc = "join_insert"
       /\ \E l \in me.lobbyData :
            LET row == GamePlayerRow(l.id, me.user)
                err == \/ fail
                       \/ ~GamePlayersInsertPolicy(me.user, row)
                       \/ ~GamePlayersUnique(game_players, row)
            IN /\ errors' = Returned("join_insert", err, err)
               /\ IF err
                  THEN /\ tabs' = [tabs EXCEPT ![t] = Landing(@, "Failed to join lobby")]
                       /\ games' = [games EXCEPT ![t] = IdleGame]
                       /\ UNCHANGED game_players
                  ELSE /\ Room(1)
                       /\ game_players' = game_players (+) SetToBag({row})
                       /\ tabs' = Deliver([tabs EXCEPT ![t].pc = "join_count"],
                                          <<PlayersChange>>)
                       /\ games' = DeliverGame(games, 1)
       /\ UNCHANGED <<lobbies, targets, game_events>>

\* joinLobby, fourth call: write the player count read by the first call, plus
\* one.  The result is not read.  fetchPlayers() then returns at once (the
\* handler's closure holds lobby = null) and loading ends.
joinLobby_count(t, fail) ==
    LET me == tabs[t]
    IN /\ me.pc = "join_count"
       /\ \E l \in me.lobbyData :
            LET cols == [current_players |-> l.current_players + 1]
                hit == IF fail THEN {} ELSE UpdatedLobbies(me.user, l.id)
            IN /\ errors' = Returned("join_count", fail, FALSE)
               /\ Room(Cardinality(hit))
               /\ lobbies' = IF fail THEN lobbies ELSE UpdateLobbies(me.user, l.id, cols)
               /\ tabs' = Deliver([tabs EXCEPT ![t].pc = "idle", ![t].loading = FALSE,
                                                ![t].lobbyData = {}],
                                  IF hit = {} THEN <<>>
                                  ELSE <<LobbyChange(cols @@ (CHOOSE r \in hit : TRUE))>>)
       /\ UNCHANGED <<game_players, targets, game_events, games>>

\* The subscription effect's channel is joined at the realtime service.
subscribe(t) ==
    /\ tabs[t].channel = "pending"
    /\ tabs' = [tabs EXCEPT ![t].channel = "active"]
    /\ UNCHANGED <<lobbies, game_players, targets, game_events, games, errors>>

\* The channel's callback for a change of the lobby's row: setLobby, and to the
\* game screen when the row says 'playing'.  A new lobby object re-runs the
\* subscription effect: the old channel is removed, a new one is joined.
onLobbyChange(t) ==
    LET me == tabs[t]
    IN /\ me.channel = "active"
       /\ me.inbox # <<>>
       /\ Head(me.inbox).table = "lobbies"
       /\ \E new \in Head(me.inbox).new :
            IF new.status = "playing"
            THEN /\ tabs' = [tabs EXCEPT ![t] = ToGame(me)]
                 /\ games' = [games EXCEPT ![t] = MountedGame]
            ELSE /\ tabs' = [tabs EXCEPT ![t] =
                               [me EXCEPT !.lobby = {new}, !.channel = "pending",
                                          !.inbox = <<>>]]
                 /\ UNCHANGED games
       /\ UNCHANGED <<lobbies, game_players, targets, game_events, errors>>

\* The channel's callback for a change of the lobby's players: fetchPlayers,
\* whose error is dropped.
fetchPlayers(t, fail) ==
    LET me == tabs[t]
    IN /\ me.channel = "active"
       /\ me.inbox # <<>>
       /\ Head(me.inbox).table = "game_players"
       /\ errors' = Returned("fetchPlayers", fail, FALSE)
       /\ \E l \in me.lobby :
            tabs' = [tabs EXCEPT ![t].inbox = Tail(@),
                                 ![t].players =
                                    IF fail THEN @
                                    ELSE {r.player_id : r \in PlayersOf(game_players, l.id)}]
       /\ UNCHANGED <<lobbies, game_players, targets, game_events, games>>

\* startGame: the Start Game button, shown to the host once loading has ended
\* and enabled when the player list is not empty.
startGame(t, fail) ==
    LET me == tabs[t]
    IN /\ me.screen = "lobby"
       /\ ~me.loading
       /\ me.players # {}
       /\ \E l \in me.lobby :
            LET cols == [status |-> "playing"]
                hit == IF fail THEN {} ELSE UpdatedLobbies(me.user, l.id)
            IN /\ l.host_id = me.user
               /\ errors' = Returned("startGame", fail, fail)
               /\ Room(Cardinality(hit))
               /\ lobbies' = IF fail THEN lobbies ELSE UpdateLobbies(me.user, l.id, cols)
               /\ tabs' = Deliver(tabs,
                                  IF hit = {} THEN <<>>
                                  ELSE <<LobbyChange(cols @@ (CHOOSE r \in hit : TRUE))>>)
       /\ UNCHANGED <<game_players, targets, game_events, games>>

\* leaveLobby: the Leave Lobby button; the handler keeps the lobby object of
\* the render it was created in.
leaveLobby(t) ==
    LET me == tabs[t]
    IN /\ me.screen = "lobby"
       /\ ~me.loading
       /\ me.pc = "idle"
       /\ me.lobby # {}
       /\ tabs' = [tabs EXCEPT ![t].pc = "leave_delete", ![t].lobbyData = me.lobby]
       /\ UNCHANGED <<lobbies, game_players, targets, game_events, games, errors>>

\* leaveLobby, first call: delete the player's row.  The result is not read.
leaveLobby_delete(t, fail) ==
    LET me == tabs[t]
    IN /\ me.pc = "leave_delete"
       /\ \E l \in me.lobbyData :
            LET after == IF fail THEN game_players
                         ELSE DeleteGamePlayers(me.user, l.id, me.user)
            IN /\ errors' = Returned("leave_delete", fail, FALSE)
               /\ Room(IF after = game_players THEN 0 ELSE 1)
               /\ game_players' = after
               /\ tabs' = Deliver([tabs EXCEPT ![t].pc = "leave_count"],
                                  IF after = game_players THEN <<>>
                                  ELSE <<PlayersChange>>)
               /\ games' = DeliverGame(games, IF after = game_players THEN 0 ELSE 1)
       /\ UNCHANGED <<lobbies, targets, game_events>>

\* leaveLobby, second call: write the player count of the handler's lobby
\* object, minus one and not below 0; then to the landing page.
leaveLobby_count(t, fail) ==
    LET me == tabs[t]
        Max(a, b) == IF a >= b THEN a ELSE b
    IN /\ me.pc = "leave_count"
       /\ \E l \in me.lobbyData :
            LET cols == [current_players |-> Max(0, l.current_players - 1)]
                hit == IF fail THEN {} ELSE UpdatedLobbies(me.user, l.id)
            IN /\ errors' = Returned("leave_count", fail, FALSE)
               /\ Room(Cardinality(hit))
               /\ lobbies' = IF fail THEN lobbies ELSE UpdateLobbies(me.user, l.id, cols)
               /\ tabs' = Deliver([tabs EXCEPT ![t] = IdleTab],
                                  IF hit = {} THEN <<>>
                                  ELSE <<LobbyChange(cols @@ (CHOOSE r \in hit : TRUE))>>)
               /\ games' = [games EXCEPT ![t] = IdleGame]
       /\ UNCHANGED <<game_players, targets, game_events>>

\* The user closes the tab (or loads the landing page in it) between two
\* handlers: the component unmounts and its channel is removed.
closeTab(t) ==
    /\ tabs[t] # IdleTab
    /\ tabs[t].pc = "idle"
    /\ tabs' = [tabs EXCEPT ![t] = IdleTab]
    /\ games' = [games EXCEPT ![t] = IdleGame]
    /\ UNCHANGED <<lobbies, game_players, targets, game_events, errors>>

Next ==
    \E t \in Tabs :
        \/ \E u \in Users, c \in CodeInputs : joinLobbyByCode(t, u, c)
        \/ \E u \in Users : joinFromList(t, u)
        \/ subscribe(t)
        \/ onLobbyChange(t)
        \/ leaveLobby(t)
        \/ closeTab(t)
        \/ \E fail \in {FALSE} :
              \/ joinLobby_find(t, fail)
              \/ joinLobby_check(t, fail)
              \/ joinLobby_insert(t, fail)
              \/ joinLobby_count(t, fail)
              \/ fetchPlayers(t, fail)
              \/ startGame(t, fail)
              \/ leaveLobby_delete(t, fail)
              \/ leaveLobby_count(t, fail)

Spec == Init /\ [][Next]_vars

\* ---------------------------------------------------------------- Game
Min(a, b) == IF a <= b THEN a ELSE b

\* Math.ceil(n / d) for n >= 0, d > 0
CeilDiv(n, d) == (n + d - 1) \div d

\* Numbers in [0, 1) are kept in hundredths: 0 for 0.00 up to 99 for 0.99.
Scale == 100

\* Math.random(): the k-th draw of the generator started from `seed`.
Random(seed, k) == (seed * 37 + 10 * k * k + 40 * k) % Scale

\* A mutation of Points: lighter targets give more points.
PointsOfLighter(colorIntensity) == CeilDiv(colorIntensity * 10, Scale)

\* Math.ceil((1 - colorIntensity) * 10)
Points(colorIntensity) == CeilDiv((Scale - colorIntensity) * 10, Scale)

\* Math.ceil(colorIntensity * 3) + 1
TargetHealth(colorIntensity) == CeilDiv(colorIntensity * 3, Scale) + 1

\* render: Math.floor(target.color_intensity * 255), the gray level drawn
\* (0 is black).
Gray(colorIntensity) == (colorIntensity * 255) \div Scale

\* The state the handlers registered at mount see: the Game component's mount
\* effect depends on [user, lobbyId] alone, so initializeGame, the window
\* listeners and the game loop keep the functions of the render that ran it.
MountRender == IdleGame

\* What the functions of a render see of the component's state; key is the
\* key held down in that render ("none": no key).
Closure(g, key) ==
    [myPlayer |-> g.myPlayer, targets |-> g.targets, wave |-> g.wave, key |-> key]

\* The render whose initializeGame and game loop run in tab t: that of the
\* last run of the mount effect.
EffectRender(t) ==
    IF games[t].closures = <<>>
    THEN Closure(MountRender, "none")
    ELSE games[t].closures[Len(games[t].closures)]

\* generateTargets' batch for wave number `wave`; color_intensity is kept in
\* hundredths, positions in whole pixels.
NewTargets(lid, wave, seed) ==
    [i \in 1..Min(5 + wave, 15) |->
        LET colorIntensity == Random(seed, 3 * i - 2)
        IN [lobby_id |-> lid,
            position_x |-> (Random(seed, 3 * i - 1) * 800) \div Scale,
            position_y |-> (Random(seed, 3 * i) * 600) \div Scale,
            color_intensity |-> colorIntensity,
            health |-> TargetHealth(colorIntensity),
            points |-> Points(colorIntensity),
            is_active |-> TRUE]]

\* insert into targets: each row gets the next id.
InsertTargets(rows) ==
    targets \o [i \in 1..Len(rows) |->
                  [id |-> Len(targets) + i] @@ rows[i]]

\* select * from targets where lobby_id = lid and is_active, as seen by uid
SelectActiveTargets(uid, lid) ==
    {targets[i] : i \in {j \in 1..Len(targets) :
        /\ targets[j].lobby_id = lid
        /\ targets[j].is_active
        /\ TargetsSelectPolicy(game_players, uid, targets[j])}}

\* The user opens /game/{lobby id}: the Game component mounts.
openGame(t, u) ==
    /\ tabs[t] = IdleTab
    /\ Len(targets) + Len(NewTargets(LobbyId, MountRender.wave, 0)) <= MaxTargets
    /\ tabs' = [tabs EXCEPT ![t] = [IdleTab EXCEPT !.user = u, !.screen = "game"]]
    /\ games' = [games EXCEPT ![t] = MountedGame]
    /\ UNCHANGED <<lobbies, game_players, targets, game_events, errors>>

\* initializeGame, first call: the lobby's players, and the tab's own among them.
initializeGame_players(t) ==
    LET rows == PlayersOf(game_players, LobbyId)
        me == {r \in rows : r.player_id = tabs[t].user}
    IN /\ games[t].pc = "init_players"
       /\ games' = [games EXCEPT ![t].pc = "init_targets",
                                 ![t].players = rows,
                                 ![t].myPlayer = IF me # {} THEN me ELSE @]
       /\ UNCHANGED <<lobbies, game_players, targets, game_events, tabs, errors>>

\* initializeGame, second call: generateTargets inserts a batch (the result is
\* not read); then setupRealtimeSubscriptions asks for the game channel.
initializeGame_targets(t, seed, fail) ==
    LET batch == NewTargets(LobbyId, EffectRender(t).wave, seed)
        ok == ~fail /\ \A i \in 1..Len(batch) : TargetsInsertPolicy(tabs[t].user, batch[i])
    IN /\ games[t].pc = "init_targets"
       /\ ok => Len(targets) + Len(batch) <= MaxTargets
       /\ errors' = Returned("generateTargets", ~ok, FALSE)
       /\ targets' = IF ok THEN InsertTargets(batch) ELSE targets
       /\ games' = [DeliverGame(games, IF ok THEN Len(batch) ELSE 0)
                       EXCEPT ![t].pc = "ready",
                              ![t].channel = IF @ = "active" THEN "active" ELSE "pending"]
       /\ UNCHANGED <<lobbies, game_players, game_events, tabs>>

\* The game channel is joined at the realtime service.
subscribeGame(t) ==
    /\ games[t].channel = "pending"
    /\ games' = [games EXCEPT ![t].channel = "active"]
    /\ UNCHANGED <<lobbies, game_players, targets, game_events, tabs, errors>>

\* fetchGameState, the game channel's callback: both tables are read again; no
\* active target left starts the two-second timer of nextWave.
fetchGameState(t) ==
    LET g == games[t]
        rows == PlayersOf(game_players, LobbyId)
        me == {r \in rows : r.player_id = tabs[t].user}
        active == SelectActiveTargets(tabs[t].user, LobbyId)
    IN /\ g.channel = "active"
       /\ g.inbox > 0
       /\ games' = [games EXCEPT ![t] =
                      [g EXCEPT !.inbox = @ - 1,
                                !.players = rows,
                                !.myPlayer = IF me # {} THEN me ELSE @,
                                !.targets = active,
                                !.gameStatus = IF active = {} THEN "wave_complete" ELSE @,
                                !.timers = IF active = {} THEN Min(@ + 1, MaxTimers) ELSE @]]
       /\ UNCHANGED <<lobbies, game_players, targets, game_events, tabs, errors>>

\* nextWave, when its timer fires: the wave number goes up, and generateTargets
\* (of the mount render) inserts the next batch.
nextWave(t, seed, fail) ==
    LET batch == NewTargets(LobbyId, MountRender.wave, seed)
        ok == ~fail /\ \A i \in 1..Len(batch) : TargetsInsertPolicy(tabs[t].user, batch[i])
    IN /\ games[t].timers > 0
       /\ games[t].wave < MaxWave
       /\ ok => Len(targets) + Len(batch) <= MaxTargets
       /\ errors' = Returned("generateTargets", ~ok, FALSE)
       /\ targets' = IF ok THEN InsertTargets(batch) ELSE targets
       /\ games' = DeliverGame([games EXCEPT ![t].timers = @ - 1,
                                             ![t].wave = @ + 1,
                                             ![t].gameStatus = "playing"],
                               IF ok THEN Len(batch) ELSE 0)
       /\ UNCHANGED <<lobbies, game_players, game_events, tabs>>

\* update game_players set <cols> where lobby_id = lid and player_id = pid,
\* issued by uid
UpdateGamePlayers(gp, uid, lid, pid, cols) ==
    LET Set(r) == IF /\ r.lobby_id = lid /\ r.player_id = pid
                     /\ GamePlayersUpdatePolicy(uid, r)
                  THEN cols @@ r ELSE r
    IN BagOfAll(Set, gp)

\* update targets set <cols> where id = id, issued by uid
UpdateTargets(tgs, uid, id, cols) ==
    [i \in 1..Len(tgs) |->
        IF tgs[i].id = id /\ TargetsUpdatePolicy(uid, tgs[i])
        THEN cols @@ tgs[i] ELSE tgs[i]]

\* shoot(targetX, targetY) as the function of one render, which sees that
\* render's myPlayer and gameState.targets, run on the tables and channels db:
\* the first listed target within the hit radius loses 1 health, or is
\* destroyed and its points go to the player's score; the shot is logged.  No
\* result is read.  db.ok tells whether every channel had room for the
\* notifications.
shoot(db, t, myPlayer, gameTargets, x, y) ==
    LET hits == {tg \in gameTargets :
                    (tg.position_x - x) * (tg.position_x - x)
                  + (tg.position_y - y) * (tg.position_y - y) < HitRadius * HitRadius}
    IN IF myPlayer = {} \/ hits = {}
       THEN db
       ELSE LET hitTarget == CHOOSE tg \in hits : \A o \in hits : tg.id <= o.id
                me == CHOOSE r \in myPlayer : TRUE
                uid == db.tabs[t].user
                newHealth == hitTarget.health - 1
                Destroy == [is_active |-> FALSE]
                Damage == [health |-> newHealth]
                AddScore == [score |-> me.score + hitTarget.points]
                event == [lobby_id |-> LobbyId,
                          event_type |-> IF newHealth <= 0 THEN "target_destroyed"
                                         ELSE "hit",
                          player_id |-> uid, target_id |-> hitTarget.id, damage |-> 1,
                          points_earned |-> IF newHealth <= 0 THEN hitTarget.points
                                            ELSE 0]
                logged == GameEventsInsertPolicy(db.game_players, uid, event)
            IN [targets |-> IF newHealth <= 0
                            THEN UpdateTargets(db.targets, uid, hitTarget.id, Destroy)
                            ELSE UpdateTargets(db.targets, uid, hitTarget.id, Damage),
                game_players |-> IF newHealth <= 0
                                 THEN UpdateGamePlayers(db.game_players, uid, LobbyId,
                                                        uid, AddScore)
                                 ELSE db.game_players,
                game_events |-> IF logged THEN db.game_events (+) SetToBag({event})
                                ELSE db.game_events,
                errors |-> IF logged THEN db.errors ELSE db.errors \cup {"game_events"},
                games |-> DeliverGame(db.games, IF newHealth <= 0 THEN 2 ELSE 1),
                tabs |-> Deliver(db.tabs, IF newHealth <= 0 THEN <<PlayersChange>>
                                          ELSE <<>>),
                ok |-> /\ db.ok
                       /\ RoomIn(db.tabs, IF newHealth <= 0 THEN 1 ELSE 0)
                       /\ BagCardinality(db.game_events) < MaxEvents]

\* The click listeners on the window, each calling the shoot of the render
\* that registered it: listener k and those registered after it, in turn.
RECURSIVE ClickListeners(_, _, _, _, _)
ClickListeners(db, t, k, x, y) ==
    IF k > Len(games[t].closures)
    THEN db
    ELSE ClickListeners(shoot(db, t, games[t].closures[k].myPlayer,
                              games[t].closures[k].targets, x, y),
                        t, k + 1, x, y)

\* handleClick, the window's click listener: the canvas is there once the tab
\* holds its own player.  The listener registered at mount calls the shoot of
\* the mount render; the listeners of later runs of the effect follow.
handleClick(t, x, y) ==
    LET db == [targets |-> targets, game_players |-> game_players,
               game_events |-> game_events, errors |-> errors, tabs |-> tabs,
               games |-> [games EXCEPT ![t].click = {<<x, y>>}], ok |-> TRUE]
        after == ClickListeners(shoot(db, t, MountRender.myPlayer,
                                      MountRender.targets, x, y),
                                t, 1, x, y)
    IN /\ games[t].pc # "none"
       /\ games[t].myPlayer # {}
       /\ after.ok
       /\ targets' = after.targets
       /\ game_players' = after.game_players
       /\ game_events' = after.game_events
       /\ errors' = after.errors
       /\ tabs' = after.tabs
       /\ games' = after.games
       /\ UNCHANGED lobbies

\* updatePlayerPosition(deltaTime) as the function of one render, with the key
\* held down: 200 px/s, kept inside the field, written when it changed.
updatePlayerPosition(t, myPlayer, key, step) ==
    IF myPlayer = {}
    THEN UNCHANGED vars
    ELSE LET me == CHOOSE r \in myPlayer : TRUE
             Max(a, b) == IF a >= b THEN a ELSE b
             dx == CASE key = "a" -> 0 - step [] key = "d" -> step [] OTHER -> 0
             dy == CASE key = "w" -> 0 - step [] key = "s" -> step [] OTHER -> 0
             newX == Max(20, Min(780, me.position_x + dx))
             newY == Max(20, Min(580, me.position_y + dy))
             Move == [position_x |-> newX, position_y |-> newY]
             moved == newX # me.position_x \/ newY # me.position_y
         IN /\ game_players' = IF moved
                               THEN UpdateGamePlayers(game_players, tabs[t].user, LobbyId,
                                                      tabs[t].user, Move)
                               ELSE game_players
            /\ Room(IF moved THEN 1 ELSE 0)
            /\ tabs' = Deliver(tabs, IF moved THEN <<PlayersChange>> ELSE <<>>)
            /\ games' = DeliverGame(games, IF moved THEN 1 ELSE 0)
            /\ UNCHANGED <<lobbies, targets, game_events, errors>>

\* gameLoop, the animation frame callback started by the mount effect: it calls
\* the updatePlayerPosition of the render that ran the effect, with the keys
\* of that render (a tenth of a second: 20 px).  In the mount render no key is
\* down and there is no player yet, whatever key is held now.
gameLoop(t, key) ==
    /\ games[t].pc # "none"
    /\ updatePlayerPosition(t, EffectRender(t).myPlayer,
                            IF games[t].closures = <<>> THEN key
                            ELSE EffectRender(t).key, 20)

\* The mount effect runs again: `user`, one of its dependencies, is a new
\* object in this render.  The cleanup cancels the game loop; initializeGame,
\* setupEventListeners and startGameLoop of this render run, so one more click
\* listener is registered, and the state this render sees is what its shoot,
\* generateTargets and updatePlayerPosition work on.  The channel asked for
\* again carries the same changes to the same refetch.
rerunEffect(t, key) ==
    /\ tabs[t].screen = "game"
    /\ games[t].pc = "ready"
    /\ Len(games[t].closures) < MaxReruns
    /\ games' = [games EXCEPT ![t].closures = Append(@, Closure(games[t], key)),
                              ![t].pc = "init_players"]
    /\ UNCHANGED <<lobbies, game_players, targets, game_events, tabs, errors>>

\* leaveGame: the Leave Game button, shown once the tab holds its own player.
\* The delete's result is not read; then to the landing page.
leaveGame(t, fail) ==
    LET after == IF fail THEN game_players
                 ELSE DeleteGamePlayers(tabs[t].user, LobbyId, tabs[t].user)
    IN /\ tabs[t].screen = "game"
       /\ tabs[t].pc = "idle"
       /\ games[t].myPlayer # {}
       /\ errors' = Returned("leaveGame", fail, FALSE)
       /\ Room(IF after = game_players THEN 0 ELSE 1)
       /\ game_players' = after
       /\ tabs' = Deliver([tabs EXCEPT ![t] = IdleTab],
                          IF after = game_players THEN <<>> ELSE <<PlayersChange>>)
       /\ games' = DeliverGame([games EXCEPT ![t] = IdleGame],
                               IF after = game_players THEN 0 ELSE 1)
       /\ UNCHANGED <<lobbies, targets, game_events>>

\* Where a click can land (canvas coordinates), and the keys of the game loop.
Clicks == {<<400, 10>>, <<400, 120>>, <<560, 360>>}
Keys == {"w", "a", "s", "d"}

GameStep(t) ==
    \/ \E u \in Users : openGame(t, u)
    \/ initializeGame_players(t)
    \/ subscribeGame(t)
    \/ fetchGameState(t)
    \/ \E p \in Clicks : handleClick(t, p[1], p[2])
    \/ \E key \in Keys : gameLoop(t, key)
    \/ \E seed \in 0..(NSeeds - 1), fail \in BOOLEAN :
          \/ initializeGame_targets(t, seed, fail)
          \/ nextWave(t, seed, fail)
    \/ \E fail \in {FALSE} : leaveGame(t, fail)

\* A game under way: the host has joined the lobby, started the game and
\* closed the tab.
GameInit ==
    /\ lobbies = {[LobbyRow(Host) EXCEPT !.current_players = 1, !.status = "playing"]}
    /\ game_players = SetToBag({GamePlayerRow(LobbyId, Host)})
    /\ targets = <<>>
    /\ game_events = EmptyBag
    /\ tabs = [t \in Tabs |-> IdleTab]
    /\ games = [t \in Tabs |-> IdleGame]
    /\ errors = {"join_check"}

\* What the Lobby component still does once the game is under way: a user
\* joins the lobby by its code, late.
LateJoinStep(t) ==
    \/ \E u \in Users, c \in CodeInputs : joinLobbyByCode(t, u, c)
    \/ subscribe(t)
    \/ closeTab(t)
    \/ \E fail \in {FALSE} :
          \/ joinLobby_find(t, fail)
          \/ joinLobby_check(t, fail)
          \/ joinLobby_insert(t, fail)
          \/ joinLobby_count(t, fail)
          \/ fetchPlayers(t, fail)

GameNext == \E t \in Tabs : GameStep(t) \/ LateJoinStep(t)

GameSpec == GameInit /\ [][GameNext]_vars

\* ------------------------------------------------- two players shooting
\* Both users have joined the lobby (the guest's count update reached no row),
\* the host has started the game, and each has the game screen open in a tab.
TwoPlayerInit ==
    /\ lobbies = {[LobbyRow(Host) EXCEPT !.current_players = 1, !.status = "playing"]}
    /\ game_players = SetToBag({GamePlayerRow(LobbyId, u) : u \in 1..2})
    /\ targets = <<>>
    /\ game_events = EmptyBag
    /\ tabs = [t \in Tabs |->
                 [IdleTab EXCEPT !.user = IF t = 1 THEN 1 ELSE 2, !.screen = "game"]]
    /\ games = [t \in Tabs |-> MountedGame]
    /\ errors = {"join_check"}

\* Clicks on the two targets of a batch that have 1 health.
KillClicks == {<<400, 120>>, <<560, 360>>}

\* The game screen where `user` changes identity while the game is on (the
\* auth client refreshes the session), so that the mount effect runs again.
ShootingStep(t) ==
    \/ initializeGame_players(t)
    \/ initializeGame_targets(t, 0, FALSE)
    \/ subscribeGame(t)
    \/ fetchGameState(t)
    \/ rerunEffect(t, "none")
    \/ \E p \in KillClicks : handleClick(t, p[1], p[2])
    \/ gameLoop(t, "none")

ShootingNext == \E t \in Tabs : ShootingStep(t)

ShootingSpec == TwoPlayerInit /\ [][ShootingNext]_vars

\* ------------------------------------------------ every batch of targets
\* The game as far as generateTargets goes, in one tab, with every start of
\* the random number generator.
AllSeeds == 0..(Scale - 1)

GenerateNext ==
    \E t \in {1} :
        \/ \E u \in Users : openGame(t, u)
        \/ initializeGame_players(t)
        \/ \E seed \in AllSeeds : initializeGame_targets(t, seed, FALSE)
        \/ subscribeGame(t)
        \/ closeTab(t)

GenerateSpec == GameInit /\ [][GenerateNext]_vars

\* ------------------------------------------------------- a crowded lobby
\* Guests who joined by code earlier and closed their tabs: each left a row in
\* game_players, and none of them could write the lobby's player count.
EarlierPlayers == (NUsers + 1)..(DefaultMaxPlayers + 1)

FullInit ==
    /\ lobbies = {LobbyRow(Host)}
    /\ game_players = SetToBag({GamePlayerRow(LobbyId, u) : u \in EarlierPlayers})
    /\ targets = <<>>
    /\ game_events = EmptyBag
    /\ tabs = [t \in Tabs |-> IdleTab]
    /\ games = [t \in Tabs |-> IdleGame]
    /\ errors = {}

FullSpec == FullInit /\ [][Next]_vars

\* ------------------------------------------------------------- fairness
\* The browser runs every pending continuation and callback, and the realtime
\* service joins every channel asked for; what a user clicks is up to the user.
SystemStep(t) ==
    \/ subscribe(t)
    \/ onLobbyChange(t)
    \/ \E fail \in {FALSE} :
          \/ joinLobby_find(t, fail)
          \/ joinLobby_check(t, fail)
          \/ joinLobby_insert(t, fail)
          \/ joinLobby_count(t, fail)
          \/ fetchPlayers(t, fail)
          \/ leaveLobby_delete(t, fail)
          \/ leaveLobby_count(t, fail)

FairSpec == Spec /\ \A t \in Tabs : WF_vars(SystemStep(t))

\* The same for the game screen: the animation frames of the game loop keep
\* coming, timers fire, and pending calls return.
GameSystemStep(t) ==
    \/ initializeGame_players(t)
    \/ subscribeGame(t)
    \/ fetchGameState(t)
    \/ \E key \in Keys : gameLoop(t, key)
    \/ \E seed \in 0..(NSeeds - 1), fail \in BOOLEAN :
          \/ initializeGame_targets(t, seed, fail)
          \/ nextWave(t, seed, fail)
    \/ subscribe(t)
    \/ \E fail \in {FALSE} :
          \/ joinLobby_find(t, fail)
          \/ joinLobby_check(t, fail)
          \/ joinLobby_insert(t, fail)
          \/ joinLobby_count(t, fail)
          \/ fetchPlayers(t, fail)

FairGameSpec == GameSpec /\ \A t \in Tabs : WF_vars(GameSystemStep(t))

\* ---------------------------------------------------------------- claims
Quiet == \A t \in Tabs : tabs[t].pc = "idle"

HasRow(lid, uid) == RowsOfPlayer(game_players, lid, uid) >= 1

\* C1: whenever no joinLobby or leaveLobby call is in progress, every lobby's
\* current_players equals the number of game_players rows of that lobby.
C1_CountMatchesRows ==
    Quiet => \A l \in lobbies : l.current_players = RowCount(game_players, l.id)

\* C2: the number of game_players rows of a lobby never exceeds the lobby's
\* max_players.
C2_NeverOverFull ==
    \A l \in lobbies : RowCount(game_players, l.id) <= l.max_players

\* C3: a tab whose user has no game_players row for the lobby holds no targets
\* row of that lobby: none was readable for it.
C3_TargetsOnlyForPlayers ==
    \A t \in Tabs :
        games[t].targets # {} =>
            \A tg \in games[t].targets : HasRow(tg.lobby_id, tabs[t].user)

\* The Start Game button of tab t is shown and enabled, and t's user is the
\* host of the lobby the tab holds.
HostCanStart(t, l) ==
    /\ tabs[t].screen = "lobby"
    /\ ~tabs[t].loading
    /\ tabs[t].players # {}
    /\ tabs[t].user = l.host_id
    /\ \E mine \in tabs[t].lobby : mine.id = l.id /\ mine.host_id = tabs[t].user

\* C4: a lobbies row changes only in a step of a handler run by its host: a
\* count update of the host's joinLobby or leaveLobby, or the host's startGame,
\* which alone takes status from 'waiting' to 'playing'.
C4_OnlyHostModifies ==
    [][\A l \in lobbies : \A l2 \in lobbies' :
          (l2.id = l.id /\ l2 # l) =>
             \/ /\ l2 = [l EXCEPT !.current_players = l2.current_players]
                /\ \E t \in Tabs :
                     /\ tabs[t].pc \in {"join_count", "leave_count"}
                     /\ tabs'[t].pc # tabs[t].pc
                     /\ tabs[t].user = l.host_id
             \/ /\ l.status = "waiting"
                /\ l2 = [l EXCEPT !.status = "playing"]
                /\ \A t \in Tabs : tabs'[t].pc = tabs[t].pc
                /\ \E t \in Tabs : HostCanStart(t, l)]_vars

\* C4, witness: the host has started the game, and a guest whose joinLobby
\* has run to its end (count update included) sits in the lobby with a row of
\* its own, while the lobby's row counts fewer players than there are rows.
C4_Witness ==
    \E t \in Tabs : \E l \in lobbies :
        /\ l.status = "playing"
        /\ tabs[t].user \in Users \ {l.host_id}
        /\ tabs[t].screen = "lobby"
        /\ tabs[t].pc = "idle"
        /\ ~tabs[t].loading
        /\ HasRow(l.id, tabs[t].user)
        /\ l.current_players < RowCount(game_players, l.id)

\* C5: after a user's leaveLobby call completes there is no game_players row
\* for that lobby and user.
C5_LeaveRemovesRow ==
    [][\A t \in Tabs :
          (tabs[t].pc = "leave_count" /\ tabs'[t].pc = "idle") =>
             \A l \in tabs[t].lobbyData :
                RowsOfPlayer(game_players', l.id, tabs[t].user) = 0]_vars

\* C5, on the game screen: after leaveGame the user has no row either.
C5_LeaveGameRemovesRow ==
    [][\A t \in Tabs :
          (tabs[t].screen = "game" /\ games[t].myPlayer # {} /\ tabs'[t].screen = "/") =>
             RowsOfPlayer(game_players', LobbyId, tabs[t].user) = 0]_vars

\* C6: once the lobby's status is 'playing', every tab whose user has joined
\* the lobby and that shows the lobby screen eventually leaves the lobby
\* screen (for the game screen, unless its user leaves first).
C6_EveryoneReachesGame ==
    \A t \in Tabs :
        ((\E l \in lobbies : /\ l.status = "playing"
                             /\ tabs[t].screen = "lobby"
                             /\ tabs[t].lobby # {}
                             /\ HasRow(l.id, tabs[t].user))
           ~> (tabs[t].screen # "lobby"))

\* C7: no database call's error is dropped: each one returned is shown in a toast.
C7_NoErrorDropped == errors = {}

\* C8: when joinLobby finds no lobby for the code, or its insert fails, the
\* handler's step takes the tab to the landing page and changes no table.
C8_FailedJoinChangesNothing ==
    [][\A t \in Tabs :
          LET me == tabs[t]
              notFound == /\ me.pc = "join_find"
                          /\ SelectLobbyByCode(ToUpperCase(me.code)) = {}
              rejected == /\ me.pc = "join_insert"
                          /\ \E l \in me.lobbyData : HasRow(l.id, me.user)
          IN ((notFound \/ rejected) /\ tabs'[t].pc # me.pc) =>
                /\ tabs'[t].screen = "/"
                /\ tabs'[t].pc = "idle"
                /\ game_players' = game_players
                /\ lobbies' = lobbies]_vars

\* C8, witness: one joinLobby is about to look up a code no lobby has, and
\* another is about to insert a row that exists already.
C8_Witness ==
    \E t1 \in Tabs : \E t2 \in Tabs \ {t1} :
        /\ tabs[t1].pc = "join_find"
        /\ SelectLobbyByCode(ToUpperCase(tabs[t1].code)) = {}
        /\ tabs[t2].pc = "join_insert"
        /\ \E l \in tabs[t2].lobbyData : HasRow(l.id, tabs[t2].user)

\* C9: there is at most one game_players row per (lobby_id, player_id).
C9_OneRowPerPlayer ==
    \A l \in lobbies : \A u \in Users \cup EarlierPlayers :
        RowsOfPlayer(game_players, l.id, u) <= 1

\* C9, witness: two tabs of one user both found no row; one has inserted and
\* the other is about to insert.
C9_Witness ==
    \E t1 \in Tabs : \E t2 \in Tabs \ {t1} :
        /\ tabs[t1].user = tabs[t2].user
        /\ tabs[t1].pc = "join_insert"
        /\ tabs[t2].pc \in {"join_count", "idle"}
        /\ tabs[t2].screen = "lobby"
        /\ \E l \in tabs[t1].lobbyData : HasRow(l.id, tabs[t1].user)

\* C10: while the game is being played, some player's stored health gets below
\* its initial value.
C10_HealthGetsReduced ==
    <>(\E r \in BagToSet(game_players) : r.health < DefaultHealth)

\* C10, the other way round: every stored health is the column's default, in
\* every state the game reaches.
C10_HealthStaysInitial ==
    \A r \in BagToSet(game_players) : r.health = DefaultHealth

\* Tab t's generateTargets inserts a batch in this step: at the end of
\* initializeGame, or in nextWave when the displayed wave number goes up.
Generates(t) ==
    /\ targets' # targets
    /\ \/ games[t].pc = "init_targets" /\ games'[t].pc = "ready"
       \/ games'[t].wave = games[t].wave + 1

\* C11: a batch generated by a tab holds exactly min(5 + w, 15) targets, w the
\* wave number the tab displays once the batch is inserted.
C11_BatchSizeFollowsWave ==
    [][\A t \in Tabs :
          Generates(t) =>
             Len(targets') - Len(targets) = Min(5 + games'[t].wave, 15)]_vars

\* C12: every generated target has points = ceil((1 - color_intensity) * 10),
\* which lies in 1..10; and of two generated targets the one drawn darker (or
\* with the lower color_intensity) never has fewer points.
C12_DarkerNeverFewerPoints ==
    \A i \in 1..Len(targets) :
        LET a == targets[i]
            x == (Scale - a.color_intensity) * 10
        IN /\ a.points \in 1..10
           /\ (a.points - 1) * Scale < x
           /\ x <= a.points * Scale
           /\ \A j \in 1..Len(targets) :
                LET b == targets[j]
                IN (\/ Gray(b.color_intensity) < Gray(a.color_intensity)
                    \/ b.color_intensity <= a.color_intensity)
                      => b.points >= a.points

\* C12, witness: two generated targets, one drawn darker and worth more, the
\* other with a fraction of a point rounded up.
C12_Witness ==
    \E i \in 1..Len(targets) : \E j \in 1..Len(targets) :
        /\ Gray(targets[j].color_intensity) < Gray(targets[i].color_intensity)
        /\ targets[j].points > targets[i].points
        /\ ((Scale - targets[i].color_intensity) * 10) % Scale # 0

\* Tab t shows the canvas with its own player and a target listed within the
\* hit radius of the point (x, y).
CanHit(t, x, y) ==
    /\ games[t].pc # "none"
    /\ games[t].myPlayer # {}
    /\ \E tg \in games[t].targets :
          (tg.position_x - x) * (tg.position_x - x)
        + (tg.position_y - y) * (tg.position_y - y) < HitRadius * HitRadius

\* C14: when a tab that holds its own player and a non-empty list of active
\* targets gets a click within the hit radius of a listed target, the step
\* writes to a target: its health goes down by 1 or it is no longer active.
C14_ClickShootsCurrentTargets ==
    [][\A t \in Tabs :
          (/\ games'[t].click # games[t].click
           /\ games'[t].click # {}
           /\ \E p \in games'[t].click : CanHit(t, p[1], p[2]))
             => \E i \in 1..Len(targets) :
                   \/ targets'[i].health = targets[i].health - 1
                   \/ targets[i].is_active /\ ~targets'[i].is_active]_vars

\* The stored score of user u in the lobby, in the table gp.
ScoreOf(gp, u) ==
    LET rows == {r \in PlayersOf(gp, LobbyId) : r.player_id = u}
    IN IF rows = {} THEN 0 ELSE (CHOOSE r \in rows : TRUE).score

\* The 'target_destroyed' events this step logs.
NewKills ==
    {e \in BagToSet(game_events') :
        /\ e.event_type = "target_destroyed"
        /\ CopiesIn(e, game_events') > CopiesIn(e, game_events)}

\* C13: a shot that destroys a target (active until then) raises the shooter's
\* stored score by exactly the target's points.
C13_KillAddsPoints ==
    [][\A e \in NewKills :
          (\E i \in 1..Len(targets) : targets[i].id = e.target_id /\ targets[i].is_active)
             => \E i \in 1..Len(targets) :
                   /\ targets[i].id = e.target_id
                   /\ ScoreOf(game_players', e.player_id)
                        = ScoreOf(game_players, e.player_id) + targets[i].points]_vars

RECURSIVE SumOfScores(_)
SumOfScores(rows) ==
    IF rows = {} THEN 0
    ELSE LET r == CHOOSE x \in rows : TRUE
         IN r.score + SumOfScores(rows \ {r})

RECURSIVE PointsOfDestroyed(_)
PointsOfDestroyed(n) ==
    IF n = 0 THEN 0
    ELSE (IF targets[n].is_active THEN 0 ELSE targets[n].points)
         + PointsOfDestroyed(n - 1)

\* C15: the points of a target are awarded at most once: no target has
\* 'target_destroyed' events of two players, and the players' scores together
\* do not exceed the points of the targets destroyed.
C15_PointsAwardedOnce ==
    /\ \A i \in 1..Len(targets) :
          Cardinality({e.player_id : e \in {x \in BagToSet(game_events) :
                                              /\ x.event_type = "target_destroyed"
                                              /\ x.target_id = targets[i].id}}) <= 1
    /\ SumOfScores(PlayersOf(game_players, LobbyId)) <= PointsOfDestroyed(Len(targets))

====
